---------------------------- MODULE Spec2Model ----------------------------
(***************************************************************************)
(* A model of src/src/update.py, the GitHub Actions version updater.       *)
(*                                                                         *)
(* Spec          one run of update_all_actions over a small tree of        *)
(*               candidate files.                                          *)
(* SpecResolver  a sequence of direct calls of get_latest_version, the     *)
(*               resolver, on the module's two globals.                    *)
(* SpecWalk      the traversal of update_all_actions over a directory      *)
(*               tree: which files it hands to update_action_version.      *)
(***************************************************************************)
EXTENDS Integers, Sequences, FiniteSets, TLC

VARIABLES
  dry_run,              \* args.dry_run
  backup,               \* args.backup
  files,                \* the candidate files on disk: path -> sequence of lines
  orig,                 \* history: the content of each file when the run began
  backups,              \* <dir>/backups/<filename>: path -> [exists, content]
  io_failed,            \* history: the paths on which an OSError was raised
  version_cache,        \* global version_cache: (owner, repo) -> (tag, sha) or None
  rate_limit_exceeded,  \* global rate_limit_exceeded
  now,                  \* int(time.time())
  requests,             \* history: requests.get calls issued per (owner, repo)
  stats,                \* the stats dictionary of update_all_actions
  proc,                 \* "running", "exit0", or the exception that ended the process
  pc,                   \* position: "walk", "lines", "backup", "write", "call", "oswalk"
  cur,                  \* index of the file being handled (walk order)
  lines,                \* update_action_version: lines
  idx,                  \* update_action_version: index of the next line of the loop
  updated_lines,        \* update_action_version: updated_lines
  changed,              \* update_action_version: changed
  changes_made,         \* update_action_version: changes_made
  last,                 \* history: the process_line / get_latest_version call of the latest step
  os_walk               \* SpecWalk: the directory tree, args.recursive, the directories
                        \* os.walk has still to yield, the files handed over so far

vars == <<dry_run, backup, files, orig, backups, io_failed, version_cache,
          rate_limit_exceeded, now, requests, stats, proc, pc, cur, lines, idx,
          updated_lines, changed, changes_made, last, os_walk>>

-----------------------------------------------------------------------------
(* Bounds of the model.                                                    *)

MaxFiles == 2          \* candidate files in the tree
MaxTotalLines == 2     \* lines in the tree, over all candidate files
MaxReset == 2          \* largest X-RateLimit-Reset epoch a response carries
MaxCalls == 3          \* requests per (owner, repo) in SpecResolver
MaxDepth == 2          \* depth of the directory tree in SpecWalk

-----------------------------------------------------------------------------
(* Values.                                                                 *)

None == <<>>

Max(a, b) == IF a >= b THEN a ELSE b

Pairs == {<<"acme", "tool">>, <<"actions", "checkout">>}

\* A version string is the sequence of its dot-separated components: 1.2.0 is
\* <<1, 2, 0>>.  A component that is not a number is written -1: the tag
\* `latest` is <<-1>>.  What may follow the dotted number is kept apart: the
\* tag v1.2.0-1 has ver <<1, 2, 0>> and post "-1".

\* The optional prefix of a version is "", "v" or "V".

\* A line of a workflow file.  uses = TRUE:
\*   uses: <owner>/<repo>@<sha> # <prefix><ver><rest>
\* where rest, the text after the dotted number, is a sequence of pieces.
\* uses = FALSE: any other text.
RefLine(o, r, s, p, v) ==
  [uses |-> TRUE, owner |-> o, repo |-> r, sha |-> s, prefix |-> p, ver |-> v,
   rest |-> <<>>]

OtherLine ==
  [uses |-> FALSE, owner |-> "", repo |-> "", sha |-> "", prefix |-> "", ver |-> <<>>,
   rest |-> <<>>]

Lines ==
  { RefLine("acme", "tool", "deadbeef", "v", <<1, 2, 0>>),
    RefLine("actions", "checkout", "deadbeef", "", <<1, 2>>),
    RefLine("acme", "tool", "deadbeef", "V", <<1, 2, 0>>),
    OtherLine }

\* The name of an upstream tag, <prefix><ver><post>: v1.3.0, V1.2, 1, latest and
\* v1.2.0-1.
TagName(p, v) == [prefix |-> p, ver |-> v, post |-> ""]

TagNames ==
  { TagName("v", <<1, 3, 0>>), TagName("V", <<1, 2>>), TagName("", <<1>>),
    TagName("", <<-1>>), [TagName("v", <<1, 2, 0>>) EXCEPT !.post = "-1"] }


-----------------------------------------------------------------------------
(* What requests.get can answer.                                           *)

\* One object of the JSON array of tags; the second shape lacks 'commit'.
TagObjects ==
  { [name |-> n, commit |-> [sha |-> "cafebabe"]] : n \in TagNames }
    \cup { [name |-> TagName("v", <<1, 3, 0>>)] }

\* A response header holding an integer: <<>> when absent, <<n>> when present.
Header(S) == {<<>>} \cup { <<n>> : n \in S }

NoBody == [valid |-> FALSE, tags |-> <<>>]

Response(e, sc, b, rem, res) ==
  [exception |-> e, status_code |-> sc, body |-> b, remaining |-> rem, reset |-> res]

\* requests.get raised before any response arrived.
TransportFailures ==
  { Response(e, 0, NoBody, <<>>, <<>>) :
      e \in {"ConnectionError", "Timeout", "RequestException"} }

\* HTTP 200: a list of tags (possibly empty, possibly with an object that lacks
\* a key), or a body that is not JSON.
OkResponses ==
  { Response("none", 200, [valid |-> TRUE, tags |-> <<t>>], <<>>, <<>>) :
      t \in TagObjects }
    \cup { Response("none", 200, [valid |-> TRUE, tags |-> <<>>], <<>>, <<>>),
           Response("none", 200, NoBody, <<>>, <<>>) }

\* HTTP 4xx/5xx: raise_for_status raises HTTPError.
ErrorResponses ==
  { Response("none", 401, NoBody, <<>>, <<>>),
    Response("none", 500, NoBody, <<>>, <<>>) }
    \cup { Response("none", 403, NoBody, rem, res) :
             rem \in Header({0, 1}), res \in Header({MaxReset}) }

Responses == TransportFailures \cup OkResponses \cup ErrorResponses

\* int(response.headers.get(name, 0))
HeaderInt(h) == IF h = <<>> THEN 0 ELSE h[1]

-----------------------------------------------------------------------------
(* The resolver: get_latest_version and its helpers.  Each operator reads  *)
(* the globals and returns the values its code assigns.                    *)

\* A check_rate_limit that never reports the flag.
check_rate_limit_ignored == FALSE

check_rate_limit == rate_limit_exceeded

get_cached_version(owner, repo) == version_cache[<<owner, repo>>]

\* A handle_rate_limit that trips the flag on every 403.
handle_rate_limit_always_trips(response) ==
  [rate_limit_exceeded |-> TRUE, slept |-> <<>>]

\* slept: <<>> when time.sleep was not called, <<wait_time>> when it was.
handle_rate_limit(response) ==
  LET remaining == HeaderInt(response.remaining)
      reset_time == HeaderInt(response.reset)
      wait_time == Max(0, reset_time - now)
  IN  IF remaining = 0
        THEN [rate_limit_exceeded |-> FALSE, slept |-> <<wait_time>>]
        ELSE [rate_limit_exceeded |-> TRUE, slept |-> <<>>]

\* exit: sys.exit(1) was called.
handle_http_error(response) ==
  IF response.status_code = 401
    THEN [exit |-> TRUE, rate_limit_exceeded |-> rate_limit_exceeded, slept |-> <<>>]
    ELSE IF response.status_code = 403
      THEN [exit |-> FALSE,
            rate_limit_exceeded |-> handle_rate_limit(response).rate_limit_exceeded,
            slept |-> handle_rate_limit(response).slept]
      ELSE [exit |-> FALSE, rate_limit_exceeded |-> rate_limit_exceeded, slept |-> <<>>]

\* returned: a response object was returned (not None); a returned response is
\* truthy, since raise_for_status passed.
execute_github_request(owner, repo, response) ==
  IF response.exception # "none"
    THEN [returned |-> FALSE, exit |-> FALSE,
          rate_limit_exceeded |-> rate_limit_exceeded, slept |-> <<>>]
    ELSE IF response.status_code >= 400
      THEN [returned |-> FALSE,
            exit |-> handle_http_error(response).exit,
            rate_limit_exceeded |-> handle_http_error(response).rate_limit_exceeded,
            slept |-> handle_http_error(response).slept]
      ELSE [returned |-> TRUE, exit |-> FALSE,
            rate_limit_exceeded |-> rate_limit_exceeded, slept |-> <<>>]

\* A handle_version_response that remembers a failure as an entry of the cache.
handle_version_response_caches_failure(response, owner, repo) ==
  IF /\ response.status_code = 200
     /\ response.body.valid
     /\ response.body.tags # <<>>
     /\ "name" \in DOMAIN response.body.tags[1]
     /\ "commit" \in DOMAIN response.body.tags[1]
    THEN [result |-> <<response.body.tags[1].name, response.body.tags[1].commit.sha>>,
          version_cache |->
            [version_cache EXCEPT ![<<owner, repo>>] =
               <<response.body.tags[1].name, response.body.tags[1].commit.sha>>]]
    ELSE [result |-> None,
          version_cache |->
            [version_cache EXCEPT ![<<owner, repo>>] = <<TagName("", <<0>>), "">>]]

\* A handle_version_response that returns the tag without storing it.
handle_version_response_no_store(response, owner, repo) ==
  IF /\ response.status_code = 200
     /\ response.body.valid
     /\ response.body.tags # <<>>
     /\ "name" \in DOMAIN response.body.tags[1]
     /\ "commit" \in DOMAIN response.body.tags[1]
    THEN [result |-> <<response.body.tags[1].name, response.body.tags[1].commit.sha>>,
          version_cache |-> version_cache]
    ELSE [result |-> None, version_cache |-> version_cache]

\* result: (latest_version, latest_sha) or None; version_cache: the cache afterwards.
handle_version_response(response, owner, repo) ==
  IF /\ response.status_code = 200
     /\ response.body.valid                             \* else json() raises ValueError
     /\ response.body.tags # <<>>
     /\ "name" \in DOMAIN response.body.tags[1]         \* else KeyError
     /\ "commit" \in DOMAIN response.body.tags[1]
    THEN LET latest_version == response.body.tags[1].name
             latest_sha == response.body.tags[1].commit.sha
         IN  [result |-> <<latest_version, latest_sha>>,
              version_cache |->
                [version_cache EXCEPT ![<<owner, repo>>] = <<latest_version, latest_sha>>]]
    ELSE [result |-> None, version_cache |-> version_cache]

\* `response` is what requests.get answers if the call is issued.
\* requested: requests.get was called.
get_latest_version(owner, repo, response) ==
  IF check_rate_limit
    THEN [result |-> None, requested |-> FALSE, exit |-> FALSE,
          version_cache |-> version_cache,
          rate_limit_exceeded |-> rate_limit_exceeded, slept |-> <<>>]
    ELSE IF get_cached_version(owner, repo) # None
      THEN [result |-> get_cached_version(owner, repo), requested |-> FALSE,
            exit |-> FALSE, version_cache |-> version_cache,
            rate_limit_exceeded |-> rate_limit_exceeded, slept |-> <<>>]
      ELSE LET req == execute_github_request(owner, repo, response)
           IN  IF req.returned
                 THEN [result |-> handle_version_response(response, owner, repo).result,
                       requested |-> TRUE, exit |-> FALSE,
                       version_cache |->
                         handle_version_response(response, owner, repo).version_cache,
                       rate_limit_exceeded |-> req.rate_limit_exceeded,
                       slept |-> req.slept]
                 ELSE [result |-> None, requested |-> TRUE, exit |-> req.exit,
                       version_cache |-> version_cache,
                       rate_limit_exceeded |-> req.rate_limit_exceeded,
                       slept |-> req.slept]

-----------------------------------------------------------------------------
(* The matcher, the comparator and process_line.                           *)

\* A pattern compiled with re.IGNORECASE: "V" is taken as "v" is.
re_search_ignorecase(line) ==
  IF line.uses /\ line.prefix \in {"", "v", "V"}
    THEN <<line.owner, line.repo, line.sha, line.ver>>
    ELSE None

\* re.search(r'uses:\s+([\w-]+)/([\w-]+)@([a-f0-9]+)\s+#\s*v?([\d.]+)', line):
\* the groups (owner, repo, current_sha, current_version), or None.  The pattern
\* takes an optional lowercase "v" before the digits and nothing else.
re_search(line) ==
  IF line.uses /\ line.prefix \in {"", "v"}
    THEN <<line.owner, line.repo, line.sha, line.ver>>
    ELSE None

\* A process_line that uses the tag as get_latest_version returned it.
strip_v_absent(tag) == tag

\* latest_version[1:] when latest_version.lower().startswith('v')
strip_v(tag) ==
  IF tag.prefix \in {"v", "V"} THEN [tag EXCEPT !.prefix = ""] ELSE tag

\* version.parse accepts the string: every component is a number.  On any
\* other string it raises InvalidVersion.
is_version(ver) == ver # <<>> /\ \A i \in 1..Len(ver) : ver[i] >= 0

\* packaging's comparison key of a release: trailing zero components dropped.
RECURSIVE version_parse(_)
version_parse(ver) ==
  IF ver # <<>> /\ ver[Len(ver)] = 0
    THEN version_parse(SubSeq(ver, 1, Len(ver) - 1))
    ELSE ver

\* Python's tuple comparison a > b: the first differing component decides, and a
\* proper prefix is the smaller.
RECURSIVE tuple_gt(_, _)
tuple_gt(a, b) ==
  IF a = <<>> THEN FALSE
  ELSE IF b = <<>> THEN TRUE
  ELSE IF a[1] # b[1] THEN a[1] > b[1]
  ELSE tuple_gt(Tail(a), Tail(b))

\* A comparison that takes an equal version for a newer one.
version_ge(latest_version, current_version) ==
  ~tuple_gt(version_parse(current_version), version_parse(latest_version.ver))

\* version.parse(latest_version) > version.parse(current_version): the releases
\* decide; on equal releases a post-release (-N) is the greater.  The pattern
\* of process_line takes digits and dots only, so current_version has none.
version_gt(latest_version, current_version) ==
  LET latest == version_parse(latest_version.ver)
      current == version_parse(current_version)
  IN  tuple_gt(latest, current) \/ (latest = current /\ latest_version.post # "")

\* re.sub(r'@([a-f0-9]+)', f'@{latest_sha}', line)
sub_sha(line, latest_sha) == [line EXCEPT !.sha = latest_sha]

\* A substitution that keeps the prefix the comment had.
sub_version_keeps_prefix(line, latest_version) ==
  [line EXCEPT !.ver = latest_version.ver,
               !.rest = IF latest_version.post = "" THEN @
                                                    ELSE <<latest_version.post>> \o @]

\* "v" followed by the prefix p.
v_then(p) == IF p = "" THEN "v" ELSE IF p = "v" THEN "vv" ELSE "vV"

\* re.sub(r'#\s*v?[\d.]+', f'# v{latest_version}', line): "# ", the optional v
\* and the dotted number become "# v" followed by latest_version as
\* process_line holds it; what followed the dotted number stays in place.
sub_version(line, latest_version) ==
  [line EXCEPT !.prefix = v_then(latest_version.prefix),
               !.ver = latest_version.ver,
               !.rest = IF latest_version.post = "" THEN @
                                                    ELSE <<latest_version.post>> \o @]

\* What a call of process_line does: the (line, was_changed) it returns, or the
\* exception it raises, and the globals afterwards.
\*   raised = "TypeError": get_latest_version returned None and the unpacking
\*   `latest_version, latest_sha = ...` failed.  raised = "SystemExit": sys.exit(1).
\*   raised = "InvalidVersion": version.parse refused a string.
Outcome(line, was_changed, raised, path, glv) ==
  [line |-> line, was_changed |-> was_changed, raised |-> raised, path |-> path,
   result |-> glv.result, requested |-> glv.requested,
   version_cache |-> glv.version_cache,
   rate_limit_exceeded |-> glv.rate_limit_exceeded, slept |-> glv.slept]

NotCalled ==
  [result |-> None, requested |-> FALSE, exit |-> FALSE,
   version_cache |-> version_cache,
   rate_limit_exceeded |-> rate_limit_exceeded, slept |-> <<>>]

process_line(line, response) ==
  LET match == re_search(line) IN
  IF match = None
    THEN Outcome(line, FALSE, "none", "no_match", NotCalled)
    ELSE
      LET owner == match[1]
          repo == match[2]
          current_version == match[4]
          glv == get_latest_version(owner, repo, response)
      IN  IF glv.exit THEN Outcome(line, FALSE, "SystemExit", "resolved", glv)
          ELSE IF glv.result = None THEN Outcome(line, FALSE, "TypeError", "resolved", glv)
          ELSE
            \* the tag names and hashes of TagObjects are non-empty strings, so
            \* `latest_version and latest_sha` is true here
            LET latest_version == strip_v(glv.result[1])
                latest_sha == glv.result[2]
            IN  IF ~is_version(latest_version.ver) \/ ~is_version(current_version)
                  THEN Outcome(line, FALSE, "InvalidVersion", "resolved", glv)
                ELSE IF version_gt(latest_version, current_version)
                  THEN IF dry_run
                         THEN Outcome(line, TRUE, "none", "resolved", glv)
                         ELSE Outcome(sub_version(sub_sha(line, latest_sha), latest_version),
                                      TRUE, "none", "resolved", glv)
                  ELSE Outcome(line, FALSE, "none", "resolved", glv)

-----------------------------------------------------------------------------
(* The initial states: the arguments, the tree, the module's globals.      *)

\* The sequences of at most k lines.
Contents(k) == UNION { [1..n -> Lines] : n \in 0..k }

\* The trees of n candidate files holding at most `budget` lines together.
RECURSIVE Workloads(_, _)
Workloads(n, budget) ==
  IF n = 0 THEN {<<>>}
  ELSE UNION { { <<c>> \o w : w \in Workloads(n - 1, budget - Len(c)) } :
               c \in Contents(budget) }

Paths == 1..MaxFiles

NoResponse == Response("none", 0, NoBody, <<>>, <<>>)

NoCall ==
  [op |-> "none", line |-> OtherLine, out |-> OtherLine, was_changed |-> FALSE,
   raised |-> "none", path |-> "no_match", pair |-> <<"", "">>, result |-> None,
   requested |-> FALSE, response |-> NoResponse, slept |-> <<>>]

\* In Spec and SpecResolver the traversal is not looked at: the candidate files
\* are 1..MaxFiles, in the order the traversal yields them.
NoWalk == [tree |-> {<<>>}, recursive |-> FALSE, todo |-> <<>>, handed |-> <<>>]

InitGlobals ==
  /\ version_cache = [p \in Pairs |-> None]
  /\ rate_limit_exceeded = FALSE
  /\ now = 1
  /\ requests = [p \in Pairs |-> 0]
  /\ last = NoCall

InitLocals ==
  /\ stats = [total_files |-> 0, files_updated |-> 0, total_changes |-> 0]
  /\ proc = "running"
  /\ cur = 1
  /\ lines = <<>>
  /\ idx = 1
  /\ updated_lines = <<>>
  /\ changed = FALSE
  /\ changes_made = 0
  /\ io_failed = {}
  /\ backups = [f \in Paths |-> [exists |-> FALSE, content |-> <<>>]]

Init ==
  /\ dry_run \in BOOLEAN
  /\ backup \in BOOLEAN
  /\ files \in Workloads(MaxFiles, MaxTotalLines)
  /\ orig = files
  /\ pc = "walk"
  /\ os_walk = NoWalk
  /\ InitGlobals
  /\ InitLocals

-----------------------------------------------------------------------------
(* update_all_actions and update_action_version.                           *)

globals == <<version_cache, rate_limit_exceeded, now, requests>>
args == <<dry_run, backup, orig, os_walk>>
locals == <<lines, idx, updated_lines, changed, changes_made>>

\* An update_action_version that opens the file for writing before it has
\* processed a line.
OpenFile_truncates ==
  /\ proc = "running" /\ pc = "walk" /\ cur <= MaxFiles
  /\ stats' = [stats EXCEPT !.total_files = @ + 1]
  /\ lines' = files[cur]
  /\ files' = [files EXCEPT ![cur] = <<>>]
  /\ idx' = 1
  /\ updated_lines' = <<>>
  /\ changed' = FALSE
  /\ changes_made' = 0
  /\ pc' = "lines"
  /\ last' = NoCall
  /\ UNCHANGED <<args, globals, backups, io_failed, proc, cur>>

\* update_all_actions takes the next candidate file: total_files is counted,
\* update_action_version opens it and reads its lines.
OpenFile ==
  /\ proc = "running" /\ pc = "walk" /\ cur <= MaxFiles
  /\ stats' = [stats EXCEPT !.total_files = @ + 1]
  /\ lines' = files[cur]
  /\ idx' = 1
  /\ updated_lines' = <<>>
  /\ changed' = FALSE
  /\ changes_made' = 0
  /\ pc' = "lines"
  /\ last' = NoCall
  /\ UNCHANGED <<args, globals, files, backups, io_failed, proc, cur>>

\* ... or open/readlines raises OSError: the except clause of
\* update_action_version reports it and the walk goes on.
OpenFileError ==
  /\ proc = "running" /\ pc = "walk" /\ cur <= MaxFiles
  /\ stats' = [stats EXCEPT !.total_files = @ + 1]
  /\ io_failed' = io_failed \cup {cur}
  /\ cur' = cur + 1
  /\ last' = NoCall
  /\ UNCHANGED <<args, globals, locals, files, backups, proc, pc>>

\* One turn of the loop `for line in lines`: process_line on the next line, with
\* whatever requests.get answers if it is called.
ProcessLine ==
  /\ proc = "running" /\ pc = "lines" /\ idx <= Len(lines)
  /\ \E response \in Responses :
       LET r == process_line(lines[idx], response) IN
         /\ version_cache' = r.version_cache
         /\ rate_limit_exceeded' = r.rate_limit_exceeded
         /\ now' = IF r.slept = <<>> THEN now ELSE now + r.slept[1]
         /\ requests' = IF r.requested
                          THEN [requests EXCEPT ![<<lines[idx].owner, lines[idx].repo>>] = @ + 1]
                          ELSE requests
         /\ last' = [op |-> "process_line", line |-> lines[idx], out |-> r.line,
                     was_changed |-> r.was_changed, raised |-> r.raised,
                     path |-> r.path,
                     pair |-> <<lines[idx].owner, lines[idx].repo>>,
                     result |-> r.result, requested |-> r.requested,
                     response |-> IF r.requested THEN response ELSE NoResponse,
                     slept |-> r.slept]
         /\ IF r.raised = "none"
              THEN /\ updated_lines' = Append(updated_lines, r.line)
                   /\ changed' = (changed \/ r.was_changed)
                   /\ changes_made' = IF r.was_changed THEN changes_made + 1
                                                       ELSE changes_made
                   /\ idx' = idx + 1
                   /\ proc' = proc
              ELSE \* SystemExit, TypeError and InvalidVersion are caught nowhere
                   /\ proc' = r.raised
                   /\ UNCHANGED <<updated_lines, changed, changes_made, idx>>
  /\ UNCHANGED <<args, files, backups, io_failed, stats, pc, cur, lines>>

\* A finalize_update that does not look at dry_run.
FinalizeUpdate_ignores_dry_run ==
  /\ proc = "running" /\ pc = "lines" /\ idx > Len(lines)
  /\ IF changed
       THEN /\ stats' = [stats EXCEPT !.files_updated = @ + 1,
                                      !.total_changes = @ + changes_made]
            /\ pc' = IF backup THEN "backup" ELSE "write"
            /\ cur' = cur
       ELSE /\ stats' = stats
            /\ pc' = "walk"
            /\ cur' = cur + 1
  /\ last' = NoCall
  /\ UNCHANGED <<args, globals, locals, files, backups, io_failed, proc>>

\* A finalize_update that counts the file whether or not a line changed.
FinalizeUpdate_counts_unchanged ==
  /\ proc = "running" /\ pc = "lines" /\ idx > Len(lines)
  /\ stats' = [stats EXCEPT !.files_updated = @ + 1,
                            !.total_changes = @ + changes_made]
  /\ IF changed /\ ~dry_run
       THEN /\ pc' = IF backup THEN "backup" ELSE "write"
            /\ cur' = cur
       ELSE /\ pc' = "walk"
            /\ cur' = cur + 1
  /\ last' = NoCall
  /\ UNCHANGED <<args, globals, locals, files, backups, io_failed, proc>>

\* finalize_update, up to its first file operation.
FinalizeUpdate ==
  /\ proc = "running" /\ pc = "lines" /\ idx > Len(lines)
  /\ IF changed
       THEN /\ stats' = [stats EXCEPT !.files_updated = @ + 1,
                                      !.total_changes = @ + changes_made]
            /\ IF ~dry_run
                 THEN /\ pc' = IF backup THEN "backup" ELSE "write"
                      /\ cur' = cur
                 ELSE /\ pc' = "walk"
                      /\ cur' = cur + 1
       ELSE /\ stats' = stats
            /\ pc' = "walk"
            /\ cur' = cur + 1
  /\ last' = NoCall
  /\ UNCHANGED <<args, globals, locals, files, backups, io_failed, proc>>

\* create_backup: makedirs and copyfile succeed ...
CreateBackup ==
  /\ proc = "running" /\ pc = "backup"
  /\ backups' = [backups EXCEPT ![cur] = [exists |-> TRUE, content |-> files[cur]]]
  /\ pc' = "write"
  /\ last' = NoCall
  /\ UNCHANGED <<args, globals, locals, files, io_failed, stats, proc, cur>>

\* ... or one of them raises OSError, which create_backup reports and swallows:
\* no copy is made, or copyfile leaves a truncated one.
CreateBackupError ==
  /\ proc = "running" /\ pc = "backup"
  /\ \/ backups' = backups
     \/ \E k \in 0..(Len(files[cur]) - 1) :
          backups' = [backups EXCEPT
                        ![cur] = [exists |-> TRUE, content |-> SubSeq(files[cur], 1, k)]]
  /\ io_failed' = io_failed \cup {cur}
  /\ pc' = "write"
  /\ last' = NoCall
  /\ UNCHANGED <<args, globals, locals, files, stats, proc, cur>>

\* finalize_update: open(file_path, 'w') and writelines succeed ...
WriteFile ==
  /\ proc = "running" /\ pc = "write"
  /\ files' = [files EXCEPT ![cur] = updated_lines]
  /\ pc' = "walk"
  /\ cur' = cur + 1
  /\ last' = NoCall
  /\ UNCHANGED <<args, globals, locals, backups, io_failed, stats, proc>>

\* ... or raise OSError, reported by finalize_update: open failed and the file
\* is as it was, or open truncated the file and writelines stopped on the way.
WriteFileError ==
  /\ proc = "running" /\ pc = "write"
  /\ \/ files' = files
     \/ \E k \in 0..(Len(updated_lines) - 1) :
          files' = [files EXCEPT ![cur] = SubSeq(updated_lines, 1, k)]
  /\ io_failed' = io_failed \cup {cur}
  /\ pc' = "walk"
  /\ cur' = cur + 1
  /\ last' = NoCall
  /\ UNCHANGED <<args, globals, locals, backups, stats, proc>>

\* The walk is over: print_summary, and the process ends with status 0.
Finish ==
  /\ proc = "running" /\ pc = "walk" /\ cur > MaxFiles
  /\ proc' = "exit0"
  /\ last' = NoCall
  /\ UNCHANGED <<args, globals, locals, files, backups, io_failed, stats, pc, cur>>

Next ==
  \/ OpenFile
  \/ OpenFileError
  \/ ProcessLine
  \/ FinalizeUpdate
  \/ CreateBackup
  \/ CreateBackupError
  \/ WriteFile
  \/ WriteFileError
  \/ Finish

Spec == Init /\ [][Next]_vars

-----------------------------------------------------------------------------
(* The resolver alone: get_latest_version called again and again.          *)

InitResolver ==
  /\ dry_run = FALSE
  /\ backup = FALSE
  /\ files = [f \in Paths |-> <<>>]
  /\ orig = files
  /\ pc = "call"
  /\ os_walk = NoWalk
  /\ InitGlobals
  /\ InitLocals

Resolve ==
  /\ proc = "running" /\ pc = "call"
  /\ \E pair \in Pairs, response \in Responses :
       LET r == get_latest_version(pair[1], pair[2], response) IN
         /\ r.requested => requests[pair] < MaxCalls
         /\ version_cache' = r.version_cache
         /\ rate_limit_exceeded' = r.rate_limit_exceeded
         /\ now' = IF r.slept = <<>> THEN now ELSE now + r.slept[1]
         /\ requests' = IF r.requested THEN [requests EXCEPT ![pair] = @ + 1]
                                       ELSE requests
         /\ last' = [op |-> "get_latest_version", line |-> OtherLine, out |-> OtherLine,
                     was_changed |-> FALSE,
                     raised |-> IF r.exit THEN "SystemExit" ELSE "none",
                     path |-> "resolved", pair |-> pair,
                     result |-> r.result, requested |-> r.requested,
                     response |-> IF r.requested THEN response ELSE NoResponse,
                     slept |-> r.slept]
         /\ proc' = IF r.exit THEN "SystemExit" ELSE proc
  /\ UNCHANGED <<args, locals, files, backups, io_failed, stats, pc, cur>>

NextResolver == Resolve

SpecResolver == InitResolver /\ [][NextResolver]_vars

-----------------------------------------------------------------------------
(* The traversal of update_all_actions: os.walk(folder_path), top down.     *)

\* The names a directory entry can have, in sorted order.  A directory is the
\* sequence of names that leads to it from folder_path, <<>> being folder_path.
DirNames == <<"backups", "sub">>
FileNames == <<"ci.yml", "notes.txt">>

\* extensions, as main builds it from the default "yml,yaml".
extensions == {".yml", ".yaml"}

\* filename.endswith(ext)
endswith(filename, ext) ==
  \/ filename = "ci.yml" /\ ext = ".yml"
  \/ filename = "notes.txt" /\ ext = ".txt"

DirPaths == UNION { [1..n -> {"backups", "sub"}] : n \in 0..MaxDepth }

\* The directory trees under folder_path; every directory holds FileNames.
Trees ==
  { t \in SUBSET DirPaths :
      /\ <<>> \in t
      /\ \A d \in t : d # <<>> => SubSeq(d, 1, Len(d) - 1) \in t }

\* The subdirectories os.walk lists in the directory top.
listdir(tree, top) ==
  { DirNames[i] : i \in { j \in 1..Len(DirNames) : Append(top, DirNames[j]) \in tree } }

\* sorted(...) of a set of directory or file names
sorted(names, S) == SelectSeq(names, LAMBDA n : n \in S)

\* A traversal that descends into every subdirectory.
walk_dirs_keeps_backups(dirs, recursive) ==
  IF ~recursive THEN <<>> ELSE sorted(DirNames, dirs)

\* dirs[:] = sorted([d for d in dirs if d != "backups"]); if not recursive:
\* dirs.clear().  The result is what os.walk descends into, in this order.
walk_dirs(dirs, recursive) ==
  IF ~recursive THEN <<>> ELSE sorted(DirNames, { d \in dirs : d # "backups" })

InitWalk ==
  /\ dry_run = FALSE
  /\ backup \in BOOLEAN
  /\ files = [f \in Paths |-> <<>>]
  /\ orig = files
  /\ pc = "oswalk"
  /\ os_walk \in { [tree |-> t, recursive |-> r, todo |-> << <<>> >>, handed |-> <<>>] :
                     t \in Trees, r \in BOOLEAN }
  /\ InitGlobals
  /\ InitLocals

\* One iteration of `for root, dirs, files in os.walk(folder_path)`: os.walk
\* yields the next directory with its listing, the body prunes dirs and hands
\* the candidate files over in sorted order.  With --backup, handling a file
\* may create <root>/backups, after the listing of root was taken.
WalkDir ==
  /\ pc = "oswalk" /\ os_walk.todo # <<>>
  /\ LET root == Head(os_walk.todo)
         dirs == walk_dirs(listdir(os_walk.tree, root), os_walk.recursive)
         candidates == sorted(FileNames,
                              { f \in { FileNames[i] : i \in 1..Len(FileNames) } :
                                  \E ext \in extensions : endswith(f, ext) })
     IN  \E made_backup \in {FALSE, backup} :
           os_walk' =
             [os_walk EXCEPT
                !.todo = [i \in 1..Len(dirs) |-> Append(root, dirs[i])] \o Tail(@),
                !.handed = @ \o [i \in 1..Len(candidates) |->
                                   [dir |-> root, name |-> candidates[i]]],
                !.tree = IF made_backup /\ candidates # <<>> /\ Len(root) < MaxDepth
                           THEN @ \cup {Append(root, "backups")}
                           ELSE @]
  /\ UNCHANGED <<dry_run, backup, orig, globals, locals, files, backups, io_failed,
                 stats, proc, pc, cur, last>>

NextWalk == WalkDir

SpecWalk == InitWalk /\ [][NextWalk]_vars

-----------------------------------------------------------------------------
(* The claims.                                                             *)

\* Component i of a dotted version, a missing trailing component read as zero.
Component(ver, i) == IF i <= Len(ver) THEN ver[i] ELSE 0

\* a is strictly newer than b: numeric comparison component by component.
StrictlyNewer(a, b) ==
  \E i \in 1..Max(Len(a), Len(b)) :
    /\ Component(a, i) > Component(b, i)
    /\ \A j \in 1..(i - 1) : Component(a, j) = Component(b, j)

\* The upstream tag is strictly newer than the declared version ver: by its
\* dotted number, or as a post-release (-N) of the same dotted number.
Newer(tag, ver) ==
  \/ StrictlyNewer(tag.ver, ver)
  \/ tag.post # "" /\ ~StrictlyNewer(ver, tag.ver)

\* The call c resolved an upstream version for its line.
Resolved(c) == c.op = "process_line" /\ c.path = "resolved" /\ c.result # None

\* Every component of the version is a number.
WellFormed(ver) == \A i \in 1..Len(ver) : ver[i] \in Nat

\* C1: within one run at most one request is issued to the tag-listing endpoint
\* for each (owner, repo), whatever the lines and whatever the answers.
C1_OneRequestPerRepo == \A p \in Pairs : requests[p] <= 1

\* C1, witness: a later line naming an already requested pair was resolved from
\* the cache, and the pair has had its one request.
C1_Witness ==
  /\ Resolved(last)
  /\ ~last.requested
  /\ requests[last.pair] = 1

\* C2: a resolve call made while rate_limit_exceeded is set returns None and
\* issues no request.
C2_ExhaustedShortCircuits ==
  [][rate_limit_exceeded =>
       /\ last'.result = None
       /\ ~last'.requested
       /\ requests' = requests]_vars

\* C2, witness: a call for a pair was made with the flag set: it asked nothing
\* and returned None.
C2_Witness ==
  /\ rate_limit_exceeded
  /\ last.op = "get_latest_version"
  /\ ~last.requested
  /\ last.result = None
  /\ requests[last.pair] = 0

\* C3 (as claimed): when the resolver yields None for a reason other than HTTP
\* 401, the line is kept unchanged and uncounted and the run goes on: no error
\* leaves process_line.
C3_NoneMeansNoUpdate ==
  (/\ last.op = "process_line"
   /\ last.path = "resolved"
   /\ last.result = None
   /\ last.response.status_code # 401)
    => /\ last.raised = "none"
       /\ proc = "running"
       /\ last.out = last.line
       /\ ~last.was_changed

\* C4: in dry-run mode no step changes a file or creates a backup; each line
\* whose resolved version is strictly newer is counted and returned as it was,
\* and a file with counted lines adds one to files_updated and its count to
\* total_changes.
C4_DryRunOnlyCounts ==
  [][dry_run =>
       /\ files' = files
       /\ backups' = backups
       /\ (Resolved(last') /\ Newer(last'.result[1], last'.line.ver))
            => /\ changes_made' = changes_made + 1
               /\ last'.out = last'.line
       /\ (pc = "lines" /\ pc' # "lines" /\ changes_made > 0)
            => /\ stats'.files_updated = stats.files_updated + 1
               /\ stats'.total_changes = stats.total_changes + changes_made]_vars

\* C4, witness: a dry run has counted a file with two would-be updates, and the
\* disk is as it was.
C4_Witness ==
  /\ dry_run
  /\ stats.files_updated = 1
  /\ stats.total_changes = 2
  /\ files = orig
  /\ \A f \in Paths : ~backups[f].exists

\* C5 (as claimed): with backup on and dry-run off, a file whose content was
\* overwritten has a backup holding exactly its original content.
C5_BackupBeforeWrite ==
  (backup /\ ~dry_run) =>
    \A f \in Paths :
      files[f] # orig[f] => (backups[f].exists /\ backups[f].content = orig[f])

\* C6 (as claimed): a file on which an I/O operation failed holds its original
\* content.
C6_FailedFileUntouched == \A f \in io_failed : files[f] = orig[f]

\* C7 (as claimed): the process ends non-zero exactly on an HTTP 401; otherwise
\* the traversal completes and it ends with status 0.
C7_ExitStatus ==
  proc # "running" =>
    \/ proc = "SystemExit" /\ last.response.status_code = 401
    \/ proc = "exit0" /\ cur > MaxFiles

\* C8: the guard changes on an HTTP 403 only: a nonzero remaining-quota header
\* sets it without blocking; a zero one blocks for max(0, reset - now) seconds
\* and leaves it clear.  Any other step leaves the guard as it was.
C8_GuardTransitions ==
  [][LET resp == last'.response IN
       IF last'.requested /\ resp.exception = "none" /\ resp.status_code = 403
            /\ resp.remaining # <<>>
         THEN IF resp.remaining[1] # 0
                THEN rate_limit_exceeded' /\ last'.slept = <<>> /\ now' = now
                ELSE /\ ~rate_limit_exceeded'
                     /\ resp.reset # <<>> =>
                          /\ last'.slept = <<Max(0, resp.reset[1] - now)>>
                          /\ now' = now + Max(0, resp.reset[1] - now)
         ELSE rate_limit_exceeded' = rate_limit_exceeded]_vars

\* C8, witness: a 403 with quota left has tripped the guard, after an earlier
\* 403 with no quota left was waited out (the clock has moved to the reset).
C8_Witness ==
  /\ rate_limit_exceeded
  /\ last.requested
  /\ last.response.status_code = 403
  /\ last.response.remaining = <<1>>
  /\ now = MaxReset

\* C9: a matching line whose resolved version (a dotted number) is not strictly
\* newer than the declared one is returned unchanged and is not counted.
C9_NotNewerUnchanged ==
  [][(/\ Resolved(last')
      /\ WellFormed(last'.result[1].ver)
      /\ ~Newer(last'.result[1], last'.line.ver))
       => /\ last'.out = last'.line
          /\ ~last'.was_changed
          /\ changes_made' = changes_made
          /\ updated_lines' = Append(updated_lines, last'.line)]_vars

\* C9, witness: declared 1.2.0 against upstream 1.2 (equal up to a trailing
\* zero): the line came back unchanged.
C9_Witness ==
  /\ Resolved(last)
  /\ last.line.ver = <<1, 2, 0>>
  /\ last.result[1].ver = <<1, 2>>
  /\ last.out = last.line
  /\ changes_made = 0

\* The upstream version known for the line of call c is strictly newer.
KnownNewer(c) ==
  /\ c.op = "process_line"
  /\ c.line.uses
  /\ c.raised = "none"
  /\ version_cache[c.pair] # None
  /\ Newer(version_cache[c.pair][1], c.line.ver)

\* The line of call c came back with the upstream hash and the comment v<new>.
Rewritten(c) ==
  /\ c.was_changed
  /\ c.out = [c.line EXCEPT !.sha = version_cache[c.pair][2],
                            !.prefix = "v",
                            !.ver = version_cache[c.pair][1].ver,
                            !.rest = IF version_cache[c.pair][1].post = ""
                                       THEN <<>>
                                       ELSE <<version_cache[c.pair][1].post>>]

\* C10 (as claimed): with dry-run off, every line of the reference shape, its
\* comment prefixed by nothing, "v" or "V", is rewritten when the upstream
\* version is strictly newer.
C10_AnyPrefixRewritten ==
  (~dry_run /\ KnownNewer(last)) => Rewritten(last)

\* C10 (amended): with dry-run off, a line of the reference shape whose comment
\* has no prefix or a lowercase "v" is rewritten when the upstream version is
\* strictly newer; one whose comment has an uppercase "V" is returned unchanged.
C10_LowercasePrefixRewritten ==
  (~dry_run /\ KnownNewer(last)) =>
    IF last.line.prefix \in {"", "v"}
      THEN Rewritten(last)
      ELSE last.out = last.line /\ ~last.was_changed

\* C10, witness: a line with an unprefixed comment was rewritten to the upstream
\* hash and the comment v1.3.0.
C10_Witness ==
  /\ ~dry_run
  /\ KnownNewer(last)
  /\ last.line.prefix = ""
  /\ last.out.prefix = "v"
  /\ last.out.sha = "cafebabe"
  /\ last.out.ver = <<1, 3, 0>>

\* C12 (as claimed): when the upstream tag or the declared version has a
\* component that is not a number, the comparison answers "not newer": the line
\* is kept unchanged and processing continues.
C12_MalformedNotNewer ==
  (/\ Resolved(last)
   /\ (~WellFormed(last.result[1].ver) \/ ~WellFormed(last.line.ver)))
    => /\ last.raised = "none"
       /\ proc = "running"
       /\ last.out = last.line
       /\ ~last.was_changed

\* C11 (as claimed): once a run with dry-run off has handled a file without an
\* I/O failure, processing the file as it now is against the same resolved
\* data (the Version Cache of the run) changes no line of it.
C11_SecondRunChangesNothing ==
  \A f \in Paths :
    (proc = "exit0" /\ ~dry_run /\ f \notin io_failed) =>
      \A i \in 1..Len(files[f]) :
        LET again == process_line(files[f][i], NoResponse)
        IN  /\ again.raised = "none"
            /\ ~again.was_changed
            /\ again.line = files[f][i]

\* The counters respect the three inequalities of RunStats.
StatsInv(s) ==
  /\ s.files_updated <= s.total_files
  /\ s.files_updated <= s.total_changes
  /\ (s.files_updated = 0) <=> (s.total_changes = 0)

\* C14: total_files grows by one for each file handed to update_action_version
\* and at no other step; files_updated grows by one and total_changes by the
\* number of changed lines when a file with at least one changed line is
\* finalized, and at no other step; the three inequalities hold throughout.
C14_StatsAggregation ==
  [][/\ StatsInv(stats) /\ StatsInv(stats')
     /\ stats'.total_files =
          IF pc = "walk" /\ proc' = "running" THEN stats.total_files + 1
                                             ELSE stats.total_files
     /\ IF pc = "lines" /\ pc' # "lines" /\ changes_made >= 1
          THEN /\ stats'.files_updated = stats.files_updated + 1
               /\ stats'.total_changes = stats.total_changes + changes_made
          ELSE /\ stats'.files_updated = stats.files_updated
               /\ stats'.total_changes = stats.total_changes]_vars

\* C14, witness: two files were handed over, one of them had two changed lines.
C14_Witness ==
  /\ proc = "exit0"
  /\ stats = [total_files |-> 2, files_updated |-> 1, total_changes |-> 2]

\* The line is not of the shape process_line looks for: it is no `uses:`
\* reference, or its comment carries an uppercase "V".
NoReference(line) == ~line.uses \/ line.prefix = "V"

\* C16: for a line that does not match the reference shape, process_line
\* returns the line itself with changed = False, issues no request and leaves
\* the Version Cache and the rate-limit flag as they were.
C16_NoMatchNoEffect ==
  [][(last'.op = "process_line" /\ NoReference(last'.line))
       => /\ last'.raised = "none"
          /\ last'.out = last'.line
          /\ ~last'.was_changed
          /\ ~last'.requested
          /\ requests' = requests
          /\ version_cache' = version_cache
          /\ rate_limit_exceeded' = rate_limit_exceeded]_vars

\* C16, witness: a line of other text went through process_line while the
\* Version Cache held an entry, and came back as it was.
C16_Witness ==
  /\ last.op = "process_line"
  /\ last.line = OtherLine
  /\ last.out = OtherLine
  /\ \E p \in Pairs : version_cache[p] # None

\* C17 (as claimed): every entry of the Version Cache holds a tag without a
\* leading "v" or "V".
C17_CacheNormalized ==
  \A p \in Pairs : version_cache[p] # None => version_cache[p][1].prefix = ""

\* C17 (amended): the Version Cache holds the tag as the response gave it,
\* leading "v" or "V" included; process_line removes that letter each time it
\* uses the tag, so the comment it writes is "v" followed by the bare version.
C17_StoredRawStrippedOnUse ==
  /\ (last.op = "process_line" /\ last.requested /\ last.result # None)
       => version_cache[last.pair][1] = last.response.body.tags[1].name
  /\ (Resolved(last) /\ last.was_changed /\ ~dry_run)
       => /\ last.out.prefix = "v"
          /\ last.out.ver = version_cache[last.pair][1].ver

\* C17, witness: the Cache holds v1.3.0 with its "v", and the line rewritten
\* from it carries a single "v".
C17_Witness ==
  /\ Resolved(last) /\ last.was_changed /\ ~dry_run
  /\ version_cache[last.pair][1].prefix = "v"
  /\ version_cache[last.pair][1].ver = <<1, 3, 0>>
  /\ last.out.prefix = "v"

\* C19: the content and the backup of a file change only in finalize_update,
\* when all of the file's lines have been processed, and only once: the file
\* still had its original content and no backup, and the walk then leaves it.
\* While its lines are being processed, and so when the run stops there, a
\* file has its original content.
C19_WriteAfterAllLines ==
  [][/\ \A f \in Paths :
          /\ files'[f] # files[f] =>
               /\ f = cur /\ pc = "write"
               /\ idx > Len(lines) /\ Len(updated_lines) = Len(lines)
               /\ files[f] = orig[f]
               /\ cur' = cur + 1
          /\ backups'[f] # backups[f] =>
               /\ f = cur /\ pc = "backup"
               /\ idx > Len(lines) /\ Len(updated_lines) = Len(lines)
               /\ ~backups[f].exists
               /\ files[f] = orig[f]
     /\ cur' >= cur
     /\ pc' = "lines" => files'[cur'] = orig[cur']]_vars

\* C19, witness: the run stopped on the second line of a file whose first line
\* had changed; the file is as it was.
C19_Witness ==
  /\ proc \in {"TypeError", "SystemExit", "InvalidVersion"}
  /\ ~dry_run
  /\ pc = "lines" /\ idx = 2 /\ changed
  /\ files[cur] = orig[cur]

\* The call c asked the endpoint and failed: no answer, an HTTP error other
\* than 401 and 403, or a 200 whose body gives no tag.
FailedResolution(c) ==
  /\ c.op = "get_latest_version"
  /\ c.requested
  /\ c.result = None
  /\ c.response.status_code \notin {401, 403}

\* C13: a failed resolution leaves the Version Cache as it was, without an
\* entry for the pair, and the next call for the same pair asks the endpoint
\* again.
C13_FailureNotCached ==
  [][/\ FailedResolution(last') =>
          /\ version_cache' = version_cache
          /\ version_cache'[last'.pair] = None
     /\ (FailedResolution(last) /\ last'.pair = last.pair) => last'.requested]_vars

\* C13, witness: the second request for a pair has failed as the first did, and
\* the Cache has no entry for the pair.
C13_Witness ==
  /\ FailedResolution(last)
  /\ last.response.status_code = 200
  /\ requests[last.pair] = 2
  /\ version_cache[last.pair] = None

\* C18: once rate_limit_exceeded is True it is True in every later state.
C18_ExhaustedAbsorbing ==
  [][rate_limit_exceeded => rate_limit_exceeded']_vars

\* C18, witness: with the flag set, a call for a pair that the Cache holds has
\* returned None, and the flag is still set.
C18_Witness ==
  /\ rate_limit_exceeded
  /\ last.op = "get_latest_version"
  /\ version_cache[last.pair] # None
  /\ last.result = None
  /\ ~last.requested

\* C15: no file handed to update_action_version lies in or below a directory
\* named backups, and without --recursive every file handed over lies directly
\* in folder_path.
C15_BackupsNeverHanded ==
  \A i \in 1..Len(os_walk.handed) :
    LET f == os_walk.handed[i]
    IN  /\ \A j \in 1..Len(f.dir) : f.dir[j] # "backups"
        /\ ~os_walk.recursive => f.dir = <<>>

\* C15, witness: a recursive traversal has ended; the tree has backups
\* directories in folder_path and in sub, and a file of sub was handed over.
C15_Witness ==
  /\ os_walk.recursive
  /\ pc = "oswalk" /\ os_walk.todo = <<>>
  /\ <<"backups">> \in os_walk.tree
  /\ <<"sub", "backups">> \in os_walk.tree
  /\ \E i \in 1..Len(os_walk.handed) : os_walk.handed[i].dir = <<"sub">>

=============================================================================
